---- MODULE Spec2Model ----
(***************************************************************************)
(* A model of the replicated chat server of Server/MessageServer.py with   *)
(* its per-server store (Server/DatabaseManager.py, Server/AuthHandler.py).*)
(*                                                                         *)
(* Granularity.  A unary handler (Register, Login, SaveSettings,           *)
(* DeleteAccount, SendMessage, NewReplica, setup) is one action: the       *)
(* forwarding hop, the local effect and the fan-out loop it makes are all  *)
(* part of it.  The two generator handlers are stepped at their yield      *)
(* points: MonitorMessages is an attach step followed by loop iterations,  *)
(* GetPendingMessage is a start step (snapshot), one step per yielded row  *)
(* and a final step (the code after the while loop).                       *)
(*                                                                         *)
(* A streaming call made by one server on another's stub                   *)
(* (`return self.leader["stub"].X(request)` inside a generator, or the     *)
(* fan-out `self.servers[id]["stub"].MonitorMessages(new_request)`) starts *)
(* the RPC on the callee and drops the response iterator, so nobody reads  *)
(* the callee's stream and the call is cancelled some time later.  Such a  *)
(* callee-side stream has reader "none"; when its cancellation arrives is  *)
(* a nondeterministic choice (actions CloseStream and CancelCall).         *)
(***************************************************************************)
EXTENDS Integers, Sequences, FiniteSets, TLC

\* ---------------------------------------------------------------- bounds
\* Number of client requests in a behaviour (also the logical time `clock`).
MaxClock == 3
\* Client-supplied message timestamps are drawn from 1..MaxTs.
MaxTs == 2
\* Longest forwarding chain followed before a request is taken to hang.
MaxHops == 2
\* Number of server processes killed in a behaviour.
MaxCrashes == 2
\* Values a client may choose as inbox limit.
MaxLimit == 2
\* Heartbeat requests answered in a run
MaxBeats == 3

\* ------------------------------------------------------------- constants
\* users.settings INTEGER DEFAULT 50
DefaultSettings == 50

Server == {1, 2, 3}
User == {"alice", "bob"}
Password == {"pw1", "pw2"}
\* self.leader = defaultdict(dict): no leader identifier has been stored
NoLeader == 0
\* `if request.requestor_id == "Client"`: the requestor of a client's probe
ClientId == 0
\* users.last_login TIMESTAMP: NULL until the first successful login
NoLogin == 0

\* ----------------------------------------------------------------- state
VARIABLES
  proc,            \* proc[s]: "off" (never started), "up", "crashed"
  leader,          \* leader[s]: self.leader["id"]
  servers,         \* servers[s]: keys of self.servers, in insertion order
  heartbeatThread, \* servers whose heartbeatThread has been started
  users,           \* users[s]: table users of s, a function on its usernames
  messages,        \* messages[s]: rows of table messages in the store of s
  active_clients,  \* active_clients[s]: dict username -> registered context
  message_queue,   \* message_queue[s][u]: mailbox of u on s
  streams,         \* monitor loops whose context is_active()
  calls,           \* GetPendingMessage generators in flight
  received,        \* received[u]: what u's client read, with the channel
  acked,           \* messages whose SendMessage returned SUCCESS to a client
  resp,            \* the last response returned to a client
  clock,           \* number of client requests issued so far
  last_heartbeat,  \* last_heartbeat[s][p]: self.servers[p]["heartbeat"] on s
  heartbeat_response, \* the last answer to a Heartbeat request
  current_stub,    \* the client's self.current_stub: a server, or None
  checked,         \* what the client's last check_servers call did
  monitor,         \* the client's _monitor_messages task
  history,         \* the last GetMessageHistory stream, as the client read it
  handlers         \* write handlers of a leader, each in its own thread

\* the heartbeat timestamps and the last Heartbeat answer
beatVars == <<last_heartbeat, heartbeat_response>>

\* the state of the client process
clientVars == <<current_stub, checked, monitor, history>>

vars == <<proc, leader, servers, heartbeatThread, users, messages, active_clients,
          message_queue, streams, calls, received, acked, resp, clock,
          beatVars, clientVars, handlers>>

\* --------------------------------------------------------------- helpers
Range(q) == {q[i] : i \in 1..Len(q)}

Up(s) == proc[s] = "up"

\* a table or dict as a function on its keys
Put(f, k, v) == [x \in DOMAIN f \cup {k} |-> IF x = k THEN v ELSE f[x]]
Drop(f, k) == [x \in DOMAIN f \ {k} |-> f[x]]
Empty == [x \in {} |-> 0]

\* dict assignment d[k] = v: a new key goes last, an old key keeps its place
DictPut(q, k) == IF k \in Range(q) THEN q ELSE Append(q, k)

RECURSIVE Without(_, _)
Without(q, k) ==
  IF q = <<>> THEN <<>>
  ELSE IF Head(q) = k THEN Without(Tail(q), k)
  ELSE <<Head(q)>> \o Without(Tail(q), k)

\* ------------------------------------------------------------ AuthHandler
hash_password(password) == <<"sha256", password>>

\* INSERT INTO users: IntegrityError when the primary key exists
register_user(db, username, password, email) ==
  IF username \in DOMAIN db
  THEN [db |-> db, ok |-> FALSE]
  ELSE [db |-> Put(db, username,
                   [password_hash |-> hash_password(password),
                    email |-> email,
                    last_login |-> NoLogin,
                    settings |-> DefaultSettings]),
        ok |-> TRUE]

authenticate_user(db, username, password, now) ==
  IF username \in DOMAIN db
     /\ db[username].password_hash = hash_password(password)
  THEN [db |-> [db EXCEPT ![username].last_login = now], ok |-> TRUE]
  ELSE [db |-> db, ok |-> FALSE]

\* -------------------------------------------------------- DatabaseManager
\* DELETE FROM users WHERE username = ?: returns True whether or not a row
\* was deleted
delete_account(db, username) ==
  [db |-> Drop(db, username), ok |-> TRUE]

\* SELECT settings FROM users WHERE username = ?: fetchone()[0] raises when
\* there is no row, and the except clause returns False
get_settings(db, username) ==
  IF username \in DOMAIN db
  THEN [found |-> TRUE, settings |-> db[username].settings]
  ELSE [found |-> FALSE, settings |-> 0]

\* UPDATE users SET settings = ? WHERE username = ?: returns True whether
\* or not a row matched
save_settings(db, username, settings) ==
  [db |-> IF username \notin DOMAIN db THEN db
          ELSE [db EXCEPT ![username].settings = settings],
   ok |-> TRUE]

\* save_message whose INSERT fails: the except clause logs and returns, so
\* the caller carries on without a row
save_message_lost(rows, sender, recipient, message, timestamp, isPending) ==
  rows

\* INSERT INTO messages: id is the auto-assigned INTEGER PRIMARY KEY
save_message(rows, sender, recipient, message, timestamp, isPending) ==
  Append(rows, [id |-> Len(rows) + 1, sender |-> sender,
                recipient |-> recipient, message |-> message,
                timestamp |-> timestamp, isPending |-> isPending])

\* a DELETE of the row in place of the UPDATE
pending_message_sent_removed(rows, id) ==
  SelectSeq(rows, LAMBDA r : r.id # id)

\* pending_message_sent whose UPDATE fails: the except clause logs and
\* returns, the row stays pending
pending_message_sent_skipped(rows, id) == rows

\* UPDATE messages SET isPending = False WHERE id = ?
pending_message_sent(rows, id) ==
  [i \in 1..Len(rows) |->
     IF rows[i].id = id THEN [rows[i] EXCEPT !.isPending = FALSE]
     ELSE rows[i]]

\* insertion of row r into q, sorted by timestamp (ties keep rowid order)
RECURSIVE InsertByTimestamp(_, _)
InsertByTimestamp(q, r) ==
  IF q = <<>> THEN <<r>>
  ELSE IF r.timestamp < Head(q).timestamp THEN <<r>> \o q
  ELSE <<Head(q)>> \o InsertByTimestamp(Tail(q), r)

RECURSIVE OrderByTimestamp(_)
OrderByTimestamp(q) ==
  IF q = <<>> THEN <<>>
  ELSE InsertByTimestamp(OrderByTimestamp(SubSeq(q, 1, Len(q) - 1)), q[Len(q)])

\* the pending rows in rowid order, without ORDER BY
get_pending_messages_unordered(rows, username) ==
  SelectSeq(rows, LAMBDA r : r.recipient = username /\ r.isPending)

\* SELECT * FROM messages WHERE recipient = ? AND isPending = True
\* ORDER BY timestamp ASC
get_pending_messages(rows, username) ==
  OrderByTimestamp(SelectSeq(rows,
      LAMBDA r : r.recipient = username /\ r.isPending))

\* every row of the user, pending or not
get_messages_all(rows, username) ==
  OrderByTimestamp(SelectSeq(rows,
      LAMBDA r : r.sender = username \/ r.recipient = username))

\* SELECT * FROM messages WHERE isPending = False AND (sender = ? OR
\* recipient = ?) ORDER BY timestamp ASC
get_messages(rows, username) ==
  OrderByTimestamp(SelectSeq(rows,
      LAMBDA r : ~r.isPending /\ (r.sender = username \/ r.recipient = username)))

\* ------------------------------------------------------- MessageServer
\* The part of the state a unary handler may change, threaded through the
\* calls it makes; log records the handler invocations of one request.
World == [users |-> users, messages |-> messages,
          active_clients |-> active_clients,
          message_queue |-> message_queue, log |-> <<>>]

Logged(W, s, source, did) ==
  [W EXCEPT !.log = Append(@, [at |-> s, source |-> source, did |-> did])]

\* context.is_active() of a registered context
IsActive(ctx) == \E st \in streams : st.ctx = ctx

\* the Message built at lines 360-365 (no source field)
MessageOf(req) ==
  [sender |-> req.sender, recipient |-> req.recipient,
   message |-> req.message, timestamp |-> req.timestamp]

\* a delivery that never looks at the subscriptions: every message is
\* stored as pending
Deliver_always_pending(W, s, req) ==
  [W EXCEPT
     !.messages[s] = save_message(@, req.sender, req.recipient,
                                  req.message, req.timestamp, TRUE)]

\* SendMessage, lines 374-393: queue for a live subscription and store as
\* delivered, else (no subscription, or a dead one, which is popped) store
\* as pending
Deliver(W, s, req) ==
  IF req.recipient \in DOMAIN W.active_clients[s]
  THEN IF ~IsActive(W.active_clients[s][req.recipient])
       THEN [W EXCEPT
               !.active_clients[s] = Drop(@, req.recipient),
               !.messages[s] = save_message(@, req.sender, req.recipient,
                                            req.message, req.timestamp, TRUE)]
       ELSE [W EXCEPT
               !.message_queue[s][req.recipient] = Append(@, MessageOf(req)),
               !.messages[s] = save_message(@, req.sender, req.recipient,
                                            req.message, req.timestamp, FALSE)]
  ELSE [W EXCEPT
          !.messages[s] = save_message(@, req.sender, req.recipient,
                                       req.message, req.timestamp, TRUE)]

\* the store call each unary handler makes on the server's own store
LocalEffect(W, s, req) ==
  CASE req.op = "Register" ->
         LET r == register_user(W.users[s], req.username, req.password, req.email)
         IN [w |-> [W EXCEPT !.users[s] = r.db], ok |-> r.ok]
    [] req.op = "Login" ->
         LET r == authenticate_user(W.users[s], req.username, req.password, req.now)
         IN [w |-> [W EXCEPT !.users[s] = r.db], ok |-> r.ok]
    [] req.op = "DeleteAccount" ->
         LET r == delete_account(W.users[s], req.username)
         IN [w |-> [W EXCEPT !.users[s] = r.db], ok |-> r.ok]
    [] req.op = "SaveSettings" ->
         LET r == save_settings(W.users[s], req.username, req.setting)
         IN [w |-> [W EXCEPT !.users[s] = r.db], ok |-> r.ok]
    [] req.op = "SendMessage" ->
         [w |-> Deliver(W, s, req), ok |-> TRUE]

\* Register builds its rejection as RegisterResponse(status=status) with
\* status = False (lines 125-128), that is the RegisterStatus value numbered
\* 0; the enum is declared in the service's proto file.  The documented
\* contract is that a rejected registration is returned as FAILURE.
RegisterRejected == "FAILURE"

\* the status a handler returns for the outcome ok of its store call
StatusOf(req, ok) ==
  IF ok THEN "SUCCESS"
  ELSE IF req.op = "Register" THEN RegisterRejected
  ELSE "FAILURE"

\* a handler without the forwarding branch: every server serves locally
ShouldForward_never(s, source) == FALSE

\* a handler that forwards only while its leader is running and serves the
\* request itself otherwise
ShouldForward_fallback(s, source) ==
  source = "Client" /\ leader[s] # s /\ Up(leader[s])

\* `if request.source == "Client" and self.leader["id"] != self.server_id`
ShouldForward(s, source) == source = "Client" /\ leader[s] # s

\* `if request.source == "Client" and self.leader["id"] == self.server_id`
ShouldFanOut(s, source) == source = "Client" /\ leader[s] = s

\* the peers a fan-out loop `for id in self.servers` visits, in order
FanOutPeers(s) == servers[s]

\* SendMessage fans out before its local effect (lines 367-372 precede
\* 374-393); the other four handlers apply locally first
FanOutFirst(req) == req.op = "SendMessage"

RECURSIVE Handle(_, _, _, _, _)
RECURSIVE FanOut(_, _, _, _)

\* One invocation of a unary write handler on server s.  An RPC to a server
\* that is not up raises in the caller; every handler body is inside
\* `try: ... except Exception: return FAILURE`.
Handle(W, s, req, source, fuel) ==
  IF ShouldForward(s, source)
  THEN LET W1 == Logged(W, s, source, "forward") IN
       IF leader[s] = NoLeader \/ ~Up(leader[s])
       THEN [w |-> W1, status |-> "FAILURE"]
       ELSE IF fuel = 0
       THEN [w |-> W1, status |-> "HANG"]
       ELSE Handle(W1, leader[s], req, source, fuel - 1)
  ELSE IF FanOutFirst(req)
  THEN LET f == IF ShouldFanOut(s, source)
                THEN FanOut(W, FanOutPeers(s), req, fuel)
                ELSE [w |-> W, ok |-> TRUE]
       IN IF ~f.ok
          THEN [w |-> f.w, status |-> "FAILURE"]
          ELSE LET l == LocalEffect(Logged(f.w, s, source, "local"), s, req)
               IN [w |-> l.w, status |-> StatusOf(req, l.ok)]
  ELSE LET l == LocalEffect(Logged(W, s, source, "local"), s, req)
           f == IF ShouldFanOut(s, source)
                THEN FanOut(l.w, FanOutPeers(s), req, fuel)
                ELSE [w |-> l.w, ok |-> TRUE]
       IN IF ~f.ok
          THEN [w |-> f.w, status |-> "FAILURE"]
          ELSE [w |-> f.w, status |-> StatusOf(req, l.ok)]

\* `for id in self.servers: self.servers[id]["stub"].X(new_request)` with
\* new_request a copy of the request tagged source="Leader"; the loop is not
\* guarded, so the first unreachable peer ends it with an exception
FanOut(W, peers, req, fuel) ==
  IF peers = <<>> THEN [w |-> W, ok |-> TRUE]
  ELSE IF ~Up(Head(peers)) THEN [w |-> W, ok |-> FALSE]
  ELSE FanOut(Handle(W, Head(peers), req, "Leader", fuel).w,
              Tail(peers), req, fuel)

\* A client issues a unary write on server s.
ClientWrite(s, req) ==
  /\ Up(s)
  /\ clock < MaxClock
  /\ LET r == Handle(World, s, req, "Client", MaxHops) IN
       /\ r.status # "HANG"
       /\ users' = r.w.users
       /\ messages' = r.w.messages
       /\ active_clients' = r.w.active_clients
       /\ message_queue' = r.w.message_queue
       /\ resp' = [op |-> req.op, req |-> req, at |-> s,
                   status |-> r.status, log |-> r.w.log, tick |-> clock + 1]
       /\ acked' = IF req.op = "SendMessage" /\ r.status = "SUCCESS"
                   THEN acked \cup {MessageOf(req)} ELSE acked
  /\ clock' = clock + 1
  /\ UNCHANGED <<handlers, clientVars, beatVars, proc, leader, servers, heartbeatThread, streams, calls, received>>

EmailOf(password) == <<"mail", password>>

Register(s, username, password) ==
  ClientWrite(s, [op |-> "Register", username |-> username,
                  password |-> password, email |-> EmailOf(password)])

Login(s, username, password) ==
  ClientWrite(s, [op |-> "Login", username |-> username,
                  password |-> password, now |-> clock + 1])

DeleteAccount(s, username) ==
  ClientWrite(s, [op |-> "DeleteAccount", username |-> username])

SaveSettings(s, username, setting) ==
  ClientWrite(s, [op |-> "SaveSettings", username |-> username,
                  setting |-> setting])

\* GetSettings on server s: served from the server's own store, never
\* forwarded.  When the row is missing get_settings returns False and the
\* handler passes it as the int32 field `setting`: the protobuf runtime
\* either takes it as 0 (status SUCCESS) or rejects the bool, which lands in
\* the except clause (status FAILURE, setting 0); st is that outcome.
GetSettings(s, username, st) ==
  /\ Up(s)
  /\ clock < MaxClock
  /\ LET r == get_settings(users[s], username) IN
       /\ r.found => st = "SUCCESS"
       /\ resp' = [op |-> "GetSettings", at |-> s, user |-> username,
                   setting |-> r.settings, status |-> st, tick |-> clock + 1]
  /\ clock' = clock + 1
  /\ UNCHANGED <<handlers, clientVars, beatVars, proc, leader, servers, heartbeatThread, users, messages,
                 active_clients, message_queue, streams, calls, received,
                 acked>>

\* the body of the n-th request is n, so that every sent message is distinct
SendMessage(s, sender, recipient, timestamp) ==
  ClientWrite(s, [op |-> "SendMessage", sender |-> sender,
                  recipient |-> recipient, message |-> clock + 1,
                  timestamp |-> timestamp])

\* ------------------------------------------- concurrent write handlers
\* The server runs its handlers on a pool of ten threads (main.py line
\* 403), so two writes a leader handles at the same time interleave at
\* their store calls and at the calls of their fan-out loops.

\* The leader l starts handling the client's write req: the store call on
\* its own store (Register line 109, SaveSettings line 537), before the
\* fan-out loop over the peers (lines 112-116, 540-544).
WriteBegin(l, req) ==
  /\ Up(l) /\ leader[l] = l
  /\ clock < MaxClock
  /\ ~FanOutFirst(req)
  /\ LET r == LocalEffect(World, l, req) IN
       /\ users' = r.w.users
       /\ handlers' = handlers \cup
            {[n |-> clock + 1, at |-> l, req |-> req,
              peers |-> FanOutPeers(l), sent |-> {},
              size |-> Len(FanOutPeers(l)), error |-> "none",
              status |-> StatusOf(req, r.ok),
              pc |-> IF FanOutPeers(l) = <<>> THEN "done" ELSE "fanout"]}
  /\ clock' = clock + 1
  /\ UNCHANGED <<clientVars, beatVars, proc, leader, servers, heartbeatThread,
                 messages, active_clients, message_queue, streams, calls,
                 received, acked, resp>>

\* One pass of the fan-out loop of handler h.  `for id in self.servers`
\* iterates the dict itself: each pass, the one that ends the loop too,
\* raises RuntimeError (dictionary changed size during iteration) when the
\* table no longer has the size it had when the loop began.  Otherwise the
\* request, tagged source="Leader", is handled by the next peer; a peer that
\* is not up raises as well.  An exception ends the loop and the handler
\* returns FAILURE.
WriteSend(h) ==
  /\ h \in handlers /\ h.pc = "fanout"
  /\ Up(h.at)
  /\ IF Len(servers[h.at]) # h.size
     THEN /\ handlers' = (handlers \ {h}) \cup
               {[h EXCEPT !.pc = "failed", !.status = "FAILURE",
                          !.error = "RuntimeError"]}
          /\ UNCHANGED users
     ELSE IF h.peers = <<>>
     THEN /\ handlers' = (handlers \ {h}) \cup {[h EXCEPT !.pc = "done"]}
          /\ UNCHANGED users
     ELSE LET p == Head(h.peers) IN
          IF ~Up(p)
          THEN /\ handlers' = (handlers \ {h}) \cup
                    {[h EXCEPT !.pc = "failed", !.status = "FAILURE",
                               !.error = "UNAVAILABLE"]}
               /\ UNCHANGED users
          ELSE /\ users' = Handle(World, p, h.req, "Leader", MaxHops).w.users
               /\ handlers' = (handlers \ {h}) \cup
                    {[h EXCEPT !.peers = Tail(@), !.sent = @ \cup {p}]}
  /\ UNCHANGED <<clientVars, beatVars, proc, leader, servers, heartbeatThread,
                 messages, active_clients, message_queue, streams, calls,
                 received, acked, resp, clock>>

\* ------------------------------------------------------------ membership
RECURSIVE NewReplica(_, _, _, _)
RECURSIVE ForwardNewReplica(_, _, _, _)

\* a NewReplica that records the joiner and forwards nothing
NewReplica_local(T, b, j, fuel) == [T EXCEPT ![b] = DictPut(@, j)]

\* NewReplica on server b for joiner j: T is the peer tables of all servers
NewReplica(T, b, j, fuel) ==
  LET T1 == [T EXCEPT ![b] = DictPut(@, j)] IN
  IF leader[b] = b /\ fuel > 0
  THEN ForwardNewReplica(T1, Without(T1[b], j), j, fuel - 1)
  ELSE T1

\* lines 677-682: every forward is inside its own try/except
ForwardNewReplica(T, peers, j, fuel) ==
  IF peers = <<>> THEN T
  ELSE ForwardNewReplica(
         IF Up(Head(peers)) THEN NewReplica(T, Head(peers), j, fuel) ELSE T,
         Tail(peers), j, fuel)

\* a GetServers that yields every entry, the requestor's included
GetServers_all(T, l, j) == T[l]

\* GetServers on server l for requestor j
GetServers(T, l, j) == Without(T[l], j)

\* datetime.now(): time is counted in answered Heartbeat requests
Now == heartbeat_response.n

\* MessageServer(ip, port, ip_connect, port_connect): server j starts and
\* runs setup against bootstrap b
setup(j, b) ==
  /\ proc[j] = "off"
  /\ proc[b] # "off"
  /\ proc' = [proc EXCEPT ![j] = "up"]
  /\ IF ~Up(b) \/ leader[b] = NoLeader
     THEN \* NewReplica raised: nothing was stored in self.leader
          /\ leader' = [leader EXCEPT ![j] = NoLeader]
          /\ servers' = IF Up(b) THEN [servers EXCEPT ![b] = DictPut(@, j)]
                        ELSE servers
     ELSE LET T == NewReplica(servers, b, j, MaxHops)
              l == leader[b]
          IN /\ leader' = [leader EXCEPT ![j] = l]
             /\ servers' = IF Up(l)
                           THEN [T EXCEPT ![j] = DictPut(GetServers(T, l, j), l)]
                           ELSE T
  \* self.heartbeatThread.start() is the last statement of the try block
  /\ heartbeatThread' =
       IF Up(b) /\ leader[b] # NoLeader /\ Up(leader[b])
       THEN heartbeatThread \cup {j} ELSE heartbeatThread
  \* every entry made in this step is stamped "heartbeat": datetime.now()
  /\ last_heartbeat' =
       [s \in Server |-> [p \in Server |->
          IF p \in Range(servers'[s]) /\ p \notin Range(servers[s])
          THEN Now ELSE last_heartbeat[s][p]]]
  /\ UNCHANGED <<handlers, clientVars, heartbeat_response, users, messages, active_clients,
                 message_queue, streams, calls, received, acked, resp, clock>>

\* the process of server s is killed: its memory is lost, its store stays
Crash(s) ==
  /\ Up(s)
  /\ Cardinality({x \in Server : proc[x] = "crashed"}) < MaxCrashes
  /\ proc' = [proc EXCEPT ![s] = "crashed"]
  /\ active_clients' = [active_clients EXCEPT ![s] = Empty]
  /\ message_queue' = [message_queue EXCEPT ![s] = [u \in User |-> <<>>]]
  /\ streams' = {st \in streams : st.ctx[2] # s}
  /\ calls' = {c \in calls : c.at # s}
  /\ heartbeatThread' = heartbeatThread \ {s}
  /\ UNCHANGED <<handlers, clientVars, beatVars, leader, servers, users, messages, received, acked, resp, clock>>

\* ------------------------------------------------- heartbeat, election
\* Heartbeat on server l from requestor s: update_heartbeat reads
\* self.servers[requestor_id], so an unknown requestor gets no response
HeartbeatAnswers(l, s) == l # NoLeader /\ Up(l) /\ s \in Range(servers[l])

\* Server p sends heartbeats: its thread runs and takes the replica branch
\* of _heartbeat (a server that believes itself the leader sends none).
SendsHeartbeats(p) == Up(p) /\ p \in heartbeatThread /\ leader[p] # p

\* The entry of peer p in the table of s keeps a fresh timestamp: either s
\* pings p and p answers (lines 734-735), or p pings s and the Heartbeat
\* handler of s updates it (line 711).
Refreshed(s, p) ==
  \/ SendsHeartbeats(s) /\ HeartbeatAnswers(p, s)
  \/ SendsHeartbeats(p) /\ s \in Range(servers[p])

Min(S) == CHOOSE x \in S : \A y \in S : x <= y

\* an election among the peers only, the server's own identifier left out
run_election_peers(T, s) == IF Len(T) = 0 THEN s ELSE Min(Range(T))

\* an election that every server wins itself
run_election_self(T, s) == s

\* run_election on server s with peer table T: the new self.leader["id"]
run_election(T, s) ==
  IF Len(T) = 0 THEN s ELSE Min(Range(T) \cup {s})

RECURSIVE RemoveFailed_no_election(_, _, _, _)
\* a sweep that deletes the failed entries and never runs an election
RemoveFailed_no_election(T, l, failed_replicas, s) ==
  IF failed_replicas = <<>> THEN [servers |-> T, leader |-> l]
  ELSE RemoveFailed_no_election(Without(T, Head(failed_replicas)), l,
                                Tail(failed_replicas), s)

RECURSIVE RemoveFailed_elect_first(_, _, _, _)
\* a sweep whose election still counts the entry it is about to delete
RemoveFailed_elect_first(T, l, failed_replicas, s) ==
  IF failed_replicas = <<>> THEN [servers |-> T, leader |-> l]
  ELSE LET id == Head(failed_replicas) IN
       RemoveFailed_elect_first(Without(T, id),
                                IF id = l THEN run_election(T, s) ELSE l,
                                Tail(failed_replicas), s)

RECURSIVE RemoveFailed(_, _, _, _)
\* lines 757-761: `for id in failed_replicas: del self.servers[id]`, with an
\* election each time the deleted identifier is the current leader's
RemoveFailed(T, l, failed_replicas, s) ==
  IF failed_replicas = <<>> THEN [servers |-> T, leader |-> l]
  ELSE LET id == Head(failed_replicas)
           T1 == Without(T, id)
       IN RemoveFailed(T1, IF id = l THEN run_election(T1, s) ELSE l,
                       Tail(failed_replicas), s)

\* check_and_remove_failed_replicas on server s once the timestamps of the
\* peers that are not refreshed are older than 3 seconds
check_and_remove_failed_replicas(s) ==
  RemoveFailed(servers[s], leader[s],
               SelectSeq(servers[s], LAMBDA p : ~Refreshed(s, p)), s)

\* One round of _heartbeat on server s that finds stale peers.  (A round
\* that finds none changes nothing.)
heartbeat(s) ==
  /\ Up(s)
  /\ s \in heartbeatThread
  /\ \E p \in Range(servers[s]) : ~Refreshed(s, p)
  /\ LET r == check_and_remove_failed_replicas(s) IN
       /\ servers' = [servers EXCEPT ![s] = r.servers]
       /\ leader' = [leader EXCEPT ![s] = r.leader]
       \* `del self.servers[id]` drops the entry with its timestamp
       /\ last_heartbeat' =
            [last_heartbeat EXCEPT ![s] =
               [p \in Server |-> IF p \in Range(r.servers) THEN @[p] ELSE 0]]
  /\ UNCHANGED <<handlers, clientVars, heartbeat_response, proc, heartbeatThread, users, messages,
                 active_clients, message_queue, streams, calls, received,
                 acked, resp, clock>>

\* a refresh that stamps every entry of the table
update_heartbeat_all(H, id, now) == [p \in DOMAIN H |-> now]

\* update_heartbeat(id): self.servers[id]["heartbeat"] = datetime.now()
update_heartbeat(H, id, now) == [H EXCEPT ![id] = now]

\* One Heartbeat request to server l.  requestor_id is ClientId for a
\* client's probe (answered at once, line 704-706), otherwise a server that
\* runs the replica branch of _heartbeat and has l in its table.  A known
\* requestor is refreshed on l (line 711) and answered with l's identifier,
\* and the requestor then refreshes its entry for l (line 735); for an
\* unknown one update_heartbeat raises and the call fails.
Heartbeat(l, requestor_id) ==
  /\ Up(l)
  /\ Now < MaxBeats
  /\ requestor_id # ClientId =>
       /\ requestor_id # l
       /\ SendsHeartbeats(requestor_id)
       /\ l \in Range(servers[requestor_id])
  /\ LET answer == [n |-> Now + 1, to |-> l, from |-> requestor_id] IN
     IF requestor_id = ClientId
     THEN /\ heartbeat_response' =
               answer @@ [responder_id |-> NoLeader,
                          status |-> "Heartbeat received"]
          /\ UNCHANGED last_heartbeat
     ELSE IF requestor_id \in Range(servers[l])
     THEN /\ heartbeat_response' =
               answer @@ [responder_id |-> l, status |-> "Heartbeat received"]
          /\ last_heartbeat' =
               [last_heartbeat EXCEPT
                  ![l] = update_heartbeat(@, requestor_id, Now + 1),
                  ![requestor_id] = update_heartbeat(@, l, Now + 1)]
     ELSE /\ heartbeat_response' =
               answer @@ [responder_id |-> NoLeader, status |-> "ERROR"]
          /\ UNCHANGED last_heartbeat
  /\ UNCHANGED <<handlers, clientVars, proc, leader, servers, heartbeatThread, users, messages,
                 active_clients, message_queue, streams, calls, received,
                 acked, resp, clock>>

\* ------------------------------------------------------ MonitorMessages

RECURSIVE Monitor(_, _, _, _, _, _, _)
RECURSIVE MonitorFanOut(_, _, _, _, _)

\* One invocation of MonitorMessages on server s up to its `while True`.
\* M = [active_clients, streams]; n numbers the client's request, so that
\* <<n, s>> names the context this invocation registers; reader tells who
\* iterates the response stream ("client", or "none" for a stream whose
\* iterator the calling server dropped).
Monitor(M, s, username, n, source, reader, fuel) ==
  IF ShouldForward(s, source) /\ HeartbeatAnswers(leader[s], s)
  THEN \* `return self.leader["stub"].MonitorMessages(request)`: this
       \* generator ends without a yield; the leader runs the request
       IF fuel = 0 THEN M
       ELSE Monitor(M, leader[s], username, n, source, "none", fuel - 1)
  ELSE LET ctx == <<n, s>>
           M1 == [active_clients |->
                    [M.active_clients EXCEPT ![s] = Put(@, username, ctx)],
                  streams |-> M.streams \cup
                    {[ctx |-> ctx, user |-> username, reader |-> reader]}]
       IN IF ShouldFanOut(s, source)
          THEN MonitorFanOut(M1, FanOutPeers(s), username, n, fuel)
          ELSE M1

\* lines 445-446: the calls only start the peers' handlers; an unreachable
\* peer raises nothing because the response iterator is never read
MonitorFanOut(M, peers, username, n, fuel) ==
  IF peers = <<>> THEN M
  ELSE MonitorFanOut(
         IF Up(Head(peers))
         THEN Monitor(M, Head(peers), username, n, "Leader", "none", fuel)
         ELSE M,
         Tail(peers), username, n, fuel)

\* A client opens a MonitorMessages stream on server s.
MonitorMessages(s, username) ==
  /\ Up(s)
  /\ clock < MaxClock
  /\ LET M == Monitor([active_clients |-> active_clients, streams |-> streams],
                      s, username, clock + 1, "Client", "client", MaxHops)
     IN /\ active_clients' = M.active_clients
        /\ streams' = M.streams
  /\ resp' = [op |-> "MonitorMessages", at |-> s, tick |-> clock + 1]
  /\ clock' = clock + 1
  /\ UNCHANGED <<handlers, clientVars, beatVars, proc, leader, servers, heartbeatThread, users, messages, message_queue,
                 calls, received, acked>>

\* One iteration of the loop at lines 448-456 for a context that is active:
\* pop the head of the user's mailbox and yield it on the stream.
MonitorLoop(st) ==
  /\ st \in streams
  /\ LET s == st.ctx[2] IN
       /\ Len(message_queue[s][st.user]) > 0
       /\ message_queue' = [message_queue EXCEPT ![s][st.user] = Tail(@)]
       /\ received' =
            IF st.reader = "client"
            THEN [received EXCEPT ![st.user] =
                    Append(@, [msg |-> Head(message_queue[s][st.user]),
                               via |-> "stream"])]
            ELSE received
  /\ UNCHANGED <<handlers, clientVars, beatVars, proc, leader, servers, heartbeatThread, users, messages, active_clients,
                 streams, calls, acked, resp, clock>>

\* The stream of st closes (the client disconnects, or the cancellation of
\* a dropped server-to-server call arrives): is_active() is False from now
\* on.  The loop keeps spinning and active_clients keeps the context (the
\* cleanup at lines 464-465 is commented out).
CloseStream(st) ==
  /\ st \in streams
  /\ streams' = streams \ {st}
  /\ UNCHANGED <<handlers, clientVars, beatVars, proc, leader, servers, heartbeatThread, users, messages, active_clients,
                 message_queue, calls, received, acked, resp, clock>>

\* ---------------------------------------------------- GetPendingMessage
\* service_pb2.GetPendingMessage(...) at line 280 names the RPC, not the
\* request type PendingMessageRequest (line 228): building the fan-out
\* request raises, and the except clause yields one FAILURE response
PendingFanOutRaises == TRUE

RECURSIVE PendingStart(_, _, _, _, _, _, _)

\* The first resumption of the generator on server s: either the forward
\* (which ends this generator and starts the leader's) or the snapshot of
\* the pending rows.  Returns the set of generators now in flight.
PendingStart(C, s, username, limit, n, source, reader) ==
  IF ShouldForward(s, source)
  THEN IF leader[s] = NoLeader \/ ~Up(leader[s]) \/ n[2] = 0
       THEN C
       ELSE PendingStart(C, leader[s], username, limit,
                         <<n[1], n[2] - 1>>, source, "none")
  ELSE C \cup {[n |-> n[1], at |-> s, user |-> username, limit |-> limit,
                source |-> source, reader |-> reader,
                pending_messages |-> get_pending_messages(messages[s], username),
                counter |-> 0, yielded |-> <<>>]}

\* A client calls GetPendingMessage on server s (source "Client" as the
\* test clients send it, or "" as Client/main.py leaves it).
GetPendingMessage(s, username, limit, source) ==
  /\ Up(s)
  /\ clock < MaxClock
  /\ calls' = PendingStart(calls, s, username, limit,
                           <<clock + 1, MaxHops>>, source, "client")
  /\ resp' = IF ShouldForward(s, source)
             THEN [op |-> "GetPendingMessage", at |-> s, user |-> username,
                   limit |-> limit, source |-> source, yielded |-> <<>>,
                   status |-> IF leader[s] = NoLeader THEN "FAILURE" ELSE "END",
                   tick |-> clock + 1]
             ELSE [op |-> "GetPendingMessage", at |-> s, user |-> username,
                   limit |-> limit, source |-> source, yielded |-> <<>>,
                   status |-> "OPEN", tick |-> clock + 1]
  /\ clock' = clock + 1
  /\ UNCHANGED <<handlers, clientVars, beatVars, proc, leader, servers, heartbeatThread, users, messages, active_clients,
                 message_queue, streams, received, acked>>

\* One pass of the while loop at lines 263-275: pop the head of the
\* snapshot, mark it delivered in the store, yield it.
PendingYield(c) ==
  /\ c \in calls
  /\ Len(c.pending_messages) > 0
  /\ c.counter < c.limit
  /\ LET row == Head(c.pending_messages)
         c1 == [c EXCEPT !.counter = @ + 1,
                         !.pending_messages = Tail(@),
                         !.yielded = Append(@, row)]
     IN /\ messages' = [messages EXCEPT ![c.at] = pending_message_sent(@, row.id)]
        /\ calls' = (calls \ {c}) \cup {c1}
        /\ received' =
             IF c.reader = "client"
             THEN [received EXCEPT ![c.user] =
                     Append(@, [msg |-> MessageOf(row), via |-> "pending"])]
             ELSE received
  /\ UNCHANGED <<handlers, clientVars, beatVars, proc, leader, servers, heartbeatThread, users, active_clients, message_queue,
                 streams, acked, resp, clock>>

\* The loop condition fails: the code after the loop runs and the stream
\* ends.
PendingFinish(c) ==
  /\ c \in calls
  /\ ~(Len(c.pending_messages) > 0 /\ c.counter < c.limit)
  /\ calls' = calls \ {c}
  /\ resp' = IF c.reader = "client"
             THEN [op |-> "GetPendingMessage", at |-> c.at, user |-> c.user,
                   limit |-> c.limit, source |-> c.source,
                   yielded |-> c.yielded,
                   status |-> IF ShouldFanOut(c.at, c.source) /\ PendingFanOutRaises
                              THEN "FAILURE" ELSE "END",
                   tick |-> c.n]
             ELSE resp
  /\ UNCHANGED <<handlers, clientVars, beatVars, proc, leader, servers, heartbeatThread, users, messages, active_clients,
                 message_queue, streams, received, acked, clock>>

\* The call of generator c is cancelled (its client went away, or the
\* server that forwarded it dropped the iterator): it is not resumed again.
CancelCall(c) ==
  /\ c \in calls
  /\ calls' = calls \ {c}
  /\ UNCHANGED <<handlers, clientVars, beatVars, proc, leader, servers, heartbeatThread, users, messages, active_clients,
                 message_queue, streams, received, acked, resp, clock>>

\* ---------------------------------------------------------- specification
\* the users who send messages, and those who read their messages
\* ----------------------------------------------------- GetMessageHistory
\* service_pb2.Message(sender, recipient, message, timestamp) of a row
Serialized(r) ==
  [sender |-> r.sender, recipient |-> r.recipient, message |-> r.message,
   timestamp |-> r.timestamp]

\* GetMessageHistory on server s: the rows get_messages returns are yielded
\* one by one and the client collects them; nothing is forwarded or written.
GetMessageHistory(s, username) ==
  /\ Up(s)
  /\ LET rows == get_messages(messages[s], username) IN
       history' = [at |-> s, username |-> username,
                   messages |-> [i \in 1..Len(rows) |-> Serialized(rows[i])]]
  /\ UNCHANGED <<handlers, beatVars, proc, leader, servers, heartbeatThread, users,
                 messages, active_clients, message_queue, streams, calls,
                 received, acked, resp, clock, current_stub, checked, monitor>>

\* ---------------------------------------------------------------- Client
\* self.current_stub = None
None == 0

\* client_config.SERVERS: the configured servers, in preference order
SERVERS == <<1, 2, 3>>

\* self.current_user of the client whose monitor task is modelled
current_user == "bob"

RECURSIVE Scan(_)
\* The loop over SERVERS: every server is probed with a Heartbeat in turn
\* until one answers; a server that is not running raises, and the loop
\* moves on with current_stub = None.
Scan(list) ==
  IF list = <<>> THEN [stub |-> None, probed |-> <<>>, answered |-> {}]
  ELSE IF Up(Head(list))
  THEN [stub |-> Head(list), probed |-> <<Head(list)>>,
        answered |-> {Head(list)}]
  ELSE LET r == Scan(Tail(list)) IN
       [r EXCEPT !.probed = <<Head(list)>> \o @]

\* check_servers with self.current_stub = stub.  A handle that answers the
\* probe is kept.  A handle that fails it raises into the outer except
\* clause, which clears the handle, sleeps and calls check_servers again;
\* that call, like a call without a handle, scans SERVERS and returns
\* whether or not a server answered.
check_servers(stub) ==
  IF stub # None /\ Up(stub)
  THEN [stub |-> stub, probed |-> <<stub>>, answered |-> {stub},
        slept |-> FALSE]
  ELSE LET r == Scan(SERVERS) IN
       [stub |-> r.stub,
        probed |-> (IF stub # None THEN <<stub>> ELSE <<>>) \o r.probed,
        answered |-> r.answered,
        slept |-> stub # None]

\* what a check_servers call leaves in the client
Checked(r) ==
  [called |-> TRUE, had |-> current_stub, stub |-> r.stub,
   probed |-> r.probed, answered |-> r.answered, slept |-> r.slept]

\* A handler of the client calls check_servers before its request.
ClientCheck ==
  /\ LET r == check_servers(current_stub) IN
       /\ current_stub' = r.stub
       /\ checked' = Checked(r)
  /\ checked' # checked
  /\ UNCHANGED <<handlers, beatVars, proc, leader, servers, heartbeatThread, users,
                 messages, active_clients, message_queue, streams, calls,
                 received, acked, resp, clock, monitor, history>>

\* the stream the monitor task iterates has ended with an error: the
\* server that served it is gone
StreamError ==
  monitor.pc = "iterating" /\ monitor.ended = "no" /\ ~Up(monitor.ctx[2])

\* the stream the monitor task iterates has ended without an error
StreamDone == monitor.pc = "iterating" /\ monitor.ended = "ok"

\* One call of _monitor_messages up to its loop: check_servers, then
\* MonitorMessages on the handle.  Without a handle the call raises
\* AttributeError and the outer except clause ends the thread with
\* sys.exit(1).  A replica that forwards the request ends the client's
\* stream at once, without a message and without an error.
OpenMonitor ==
  /\ clock < MaxClock
  /\ LET r == check_servers(current_stub) IN
       /\ current_stub' = r.stub
       /\ checked' = Checked(r)
       /\ IF r.stub = None
          THEN /\ monitor' = [monitor EXCEPT !.pc = "exited"]
               /\ UNCHANGED <<active_clients, streams, resp, clock>>
          ELSE LET n == clock + 1
                   M == Monitor([active_clients |-> active_clients,
                                 streams |-> streams],
                                r.stub, current_user, n, "Client", "client",
                                MaxHops)
                   served == \E st \in M.streams :
                               st.ctx = <<n, r.stub>> /\ st.reader = "client"
               IN /\ active_clients' = M.active_clients
                  /\ streams' = M.streams
                  /\ monitor' = [pc |-> "iterating",
                                 original_server |-> r.stub,
                                 ctx |-> <<n, r.stub>>,
                                 ended |-> IF served THEN "no" ELSE "ok",
                                 opened |-> monitor.opened + 1]
                  /\ resp' = [op |-> "MonitorMessages", at |-> r.stub,
                              tick |-> n]
                  /\ clock' = clock + 1
  /\ UNCHANGED <<handlers, beatVars, proc, leader, servers, heartbeatThread, users,
                 messages, message_queue, calls, received, acked, history>>

\* The monitor task: the thread starts _monitor_messages; in its loop, an
\* exception from the stream calls _monitor_messages again at once, and a
\* handle other than original_server leaves the loop and calls it again
\* after the sleep.  The handle is compared only between two passes over
\* the stream, so a stream that stays open keeps the loop waiting, and a
\* stream that ended without an error is iterated again and again.
monitor_messages ==
  /\ \/ monitor.pc = "idle"
     \/ StreamError
     \/ StreamDone /\ monitor.original_server # current_stub
  /\ OpenMonitor

Senders == {"alice"}
Subscribers == {"bob"}
\* the usernames clients register, log in with, configure and delete
Accounts == {"alice"}

\* the source tags client requests carry
Sources == {"Client"}

\* the server started without ip_connect/port_connect
Founders == {2}

Init ==
  /\ \E l \in Founders :
       /\ proc = [s \in Server |-> IF s = l THEN "up" ELSE "off"]
       /\ leader = [s \in Server |-> IF s = l THEN l ELSE NoLeader]
  /\ servers = [s \in Server |-> <<>>]
  /\ heartbeatThread = {s \in Server : proc[s] = "up"}
  /\ users = [s \in Server |-> Empty]
  /\ messages = [s \in Server |-> <<>>]
  /\ active_clients = [s \in Server |-> Empty]
  /\ message_queue = [s \in Server |-> [u \in User |-> <<>>]]
  /\ streams = {}
  /\ calls = {}
  /\ received = [u \in User |-> <<>>]
  /\ acked = {}
  /\ resp = [op |-> "none", tick |-> 0]
  /\ clock = 0
  /\ last_heartbeat = [s \in Server |-> [p \in Server |-> 0]]
  /\ heartbeat_response = [n |-> 0, to |-> 0, from |-> 0,
                           responder_id |-> NoLeader, status |-> "none"]
  /\ current_stub = None
  /\ checked = [called |-> FALSE, had |-> None, stub |-> None, probed |-> <<>>,
                answered |-> {}, slept |-> FALSE]
  /\ monitor = [pc |-> "idle", original_server |-> None, ctx |-> <<0, 0>>,
                ended |-> "no", opened |-> 0]
  /\ history = [at |-> 0, username |-> "", messages |-> <<>>]
  /\ handlers = {}

Membership ==
  \/ \E j \in Server, b \in Server : setup(j, b)
  \/ \E s \in Server : Crash(s)

Heartbeats == \E s \in Server : heartbeat(s)

HeartbeatRequests ==
  \E l \in Server, requestor_id \in Server \cup {ClientId} :
    Heartbeat(l, requestor_id)

AuthRequests ==
  \/ \E s \in Server, u \in Accounts, p \in Password : Register(s, u, p)
  \/ \E s \in Server, u \in Accounts, p \in Password : Login(s, u, p)
  \/ \E s \in Server, u \in Accounts : DeleteAccount(s, u)
  \/ \E s \in Server, u \in Accounts, v \in 1..MaxLimit : SaveSettings(s, u, v)

SettingsRequests ==
  \/ \E s \in Server, u \in Accounts, p \in Password : Register(s, u, p)
  \/ \E s \in Server, u \in Accounts, v \in 1..MaxLimit : SaveSettings(s, u, v)
  \/ \E s \in Server, u \in Accounts, st \in {"SUCCESS", "FAILURE"} :
       GetSettings(s, u, st)

SendRequests ==
  \/ \E s \in Server, a \in Senders, b \in Subscribers, t \in 1..MaxTs :
       SendMessage(s, a, b, t)
  \/ \E s \in Server, u \in Subscribers : MonitorMessages(s, u)
  \/ \E st \in streams : CloseStream(st)

StreamRequests ==
  \/ \E st \in streams : MonitorLoop(st)
  \/ \E s \in Server, u \in Subscribers, L \in 1..MaxLimit, src \in Sources :
       GetPendingMessage(s, u, L, src)
  \/ \E c \in calls : PendingYield(c)
  \/ \E c \in calls : PendingFinish(c)
  \/ \E c \in calls : CancelCall(c)

\* the five unary writes, with subscriptions coming and going
HistoryRequests ==
  \E s \in Server, u \in User : GetMessageHistory(s, u)

ClientRequests == ClientCheck \/ monitor_messages

\* writes the leader handles in concurrent threads
ConcurrentWrites ==
  \/ \E l \in Server, u \in Accounts, p \in Password :
       WriteBegin(l, [op |-> "Register", username |-> u, password |-> p,
                      email |-> EmailOf(p)])
  \/ \E l \in Server, u \in Accounts, v \in 1..MaxLimit :
       WriteBegin(l, [op |-> "SaveSettings", username |-> u, setting |-> v])
  \/ \E h \in handlers : WriteSend(h)

NextWrite == Membership \/ AuthRequests \/ SendRequests
\* message delivery: sends, subscriptions, monitor loops, pending streams
NextMsg == Membership \/ SendRequests \/ StreamRequests
Next == Membership \/ Heartbeats \/ HeartbeatRequests \/ AuthRequests
          \/ SettingsRequests \/ SendRequests \/ StreamRequests
          \/ HistoryRequests \/ ClientRequests \/ ConcurrentWrites
\* failover: messages are sent and read back while servers join, fail and
\* elect
FailoverRequests ==
  \/ \E s \in Server, a \in Senders, b \in Subscribers, t \in 1..MaxTs :
       SendMessage(s, a, b, t)
  \/ \E s \in Server, u \in Subscribers, L \in 1..MaxLimit, src \in Sources :
       GetPendingMessage(s, u, L, src)
  \/ \E c \in calls : PendingYield(c)
  \/ \E c \in calls : PendingFinish(c)
NextFailover == Membership \/ Heartbeats \/ FailoverRequests
\* the notification limit: accounts are registered, configured and read
NextSettings == Membership \/ SettingsRequests

\* membership, failure detection and election
NextElect == Membership \/ Heartbeats

\* subscriptions: streams open, deliver and close while messages are sent
NextStream == Membership \/ SendRequests \/ \E st \in streams : MonitorLoop(st)
\* clients subscribe and disconnect
Subscriptions ==
  \/ \E s \in Server, u \in Subscribers : MonitorMessages(s, u)
  \/ \E st \in streams : CloseStream(st)
\* subscriptions across a change of leader
NextReconnect == Membership \/ Heartbeats \/ Subscriptions
\* membership, heartbeat requests and sweeps
NextBeat == Membership \/ Heartbeats \/ HeartbeatRequests

\* message histories are read while messages are sent to subscribers
NextHistory ==
  \/ Membership
  \/ \E s \in Server, a \in Senders, b \in Subscribers, t \in 1..MaxTs :
       SendMessage(s, a, b, t)
  \/ \E s \in Server, u \in Subscribers : MonitorMessages(s, u)
  \/ HistoryRequests
\* the client discovers servers and runs its monitor task
NextClient == Membership \/ Heartbeats \/ ClientRequests

\* servers join and fail while the leader handles writes concurrently
NextConcurrent == Membership \/ ConcurrentWrites
SpecConcurrent == Init /\ [][NextConcurrent]_vars
\* messages are stored and read back while accounts come and go
NextRows ==
  \/ Membership
  \/ \E s \in Server, u \in Accounts, p \in Password : Register(s, u, p)
  \/ \E s \in Server, u \in User : DeleteAccount(s, u)
  \/ FailoverRequests
SpecRows == Init /\ [][NextRows]_vars
SpecHistory == Init /\ [][NextHistory]_vars
SpecClient == Init /\ [][NextClient]_vars
\* the monitor task is a running thread (Client/main.py line 146)
SpecClientFair == SpecClient /\ WF_vars(monitor_messages)
SpecElect == Init /\ [][NextElect]_vars
SpecBeat == Init /\ [][NextBeat]_vars
\* the heartbeat timer keeps running (lines 727 and 737)
SpecReconnectFair ==
  /\ Init /\ [][NextReconnect]_vars
  /\ \A s \in Server : WF_vars(heartbeat(s))
\* the monitor loop of an open stream is a running thread (lines 448-456)
SpecStreamFair ==
  /\ Init /\ [][NextStream]_vars
  /\ WF_vars(\E st \in streams : MonitorLoop(st))
SpecWrite == Init /\ [][NextWrite]_vars
SpecSettings == Init /\ [][NextSettings]_vars
SpecFailover == Init /\ [][NextFailover]_vars
SpecMsg == Init /\ [][NextMsg]_vars
Spec == Init /\ [][Next]_vars

\* ------------------------------------------------------------------ C1
\* how many times the client of m's recipient has read m, on any channel
Delivered(m) ==
  Cardinality({i \in 1..Len(received[m.recipient]) :
                 received[m.recipient][i].msg = m})

\* m can still reach its recipient: the server that serves client requests
\* (an up leader) holds it as a pending row or in the recipient's mailbox,
\* or a call the client is reading has it in its snapshot
Retrievable(m) ==
  \/ \E s \in Server :
       /\ Up(s) /\ leader[s] = s
       /\ \/ \E i \in 1..Len(messages[s]) :
               MessageOf(messages[s][i]) = m /\ messages[s][i].isPending
          \/ m \in Range(message_queue[s][m.recipient])
  \/ \E c \in calls :
       c.reader = "client" /\ m \in {MessageOf(r) : r \in Range(c.pending_messages)}

NoCrash == \A s \in Server : proc[s] # "crashed"

\* C1: while no server has crashed, every message whose SendMessage
\* returned SUCCESS has been read by its recipient exactly once, or not yet
\* and is then still retrievable (pending row or mailbox at the leader);
\* it is never read twice and never lost.
C1_ExactlyOnce ==
  NoCrash =>
    \A m \in acked :
      \/ Delivered(m) = 1
      \/ Delivered(m) = 0 /\ Retrievable(m)

\* ------------------------------------------------------------- C2 .. C6
WriteOps == {"Register", "Login", "DeleteAccount", "SaveSettings", "SendMessage"}

\* this step returns the response of a unary write to a client
WriteStep == resp'.tick # resp.tick /\ resp'.op \in WriteOps

RECURSIVE Serving(_, _)
\* the server a client request sent to s ends up at by following leader
\* references; NoLeader when a hop is missing or unreachable
Serving(s, fuel) ==
  IF leader[s] = s THEN s
  ELSE IF leader[s] = NoLeader \/ ~Up(leader[s]) \/ fuel = 0 THEN NoLeader
  ELSE Serving(leader[s], fuel - 1)

\* the server that handles a client request sent to s: s itself when it
\* believes itself the leader, else the one its leader reference leads to
LeaderOf(s) == Serving(s, MaxHops)

\* this step's request was handled by a leader that is up
HandledStep == WriteStep /\ LeaderOf(resp'.at) # NoLeader /\ Up(LeaderOf(resp'.at))

\* number of invocations on server s, tagged source, that did `did`
LogCount(log, s, source, did) ==
  Cardinality({i \in 1..Len(log) :
                 log[i] = [at |-> s, source |-> source, did |-> did]})

\* C2: a write that returns FAILURE to the client has changed no server's
\* store (neither table users nor table messages, on any server).
C2_FailureChangesNoStore ==
  [][(WriteStep /\ resp'.status = "FAILURE")
       => (users' = users /\ messages' = messages)]_vars

\* the effect of write req is in a store with users table db and message
\* rows `rows`
Applied(req, db, rows) ==
  CASE req.op = "Register" ->
         /\ req.username \in DOMAIN db
         /\ db[req.username].password_hash = hash_password(req.password)
         /\ db[req.username].email = req.email
    [] req.op = "Login" ->
         /\ req.username \in DOMAIN db
         /\ db[req.username].last_login = req.now
    [] req.op = "DeleteAccount" -> req.username \notin DOMAIN db
    [] req.op = "SaveSettings" ->
         req.username \in DOMAIN db => db[req.username].settings = req.setting
    [] req.op = "SendMessage" ->
         \E i \in 1..Len(rows) : MessageOf(rows[i]) = MessageOf(req)

C4_RoutingRule ==
  [][(WriteStep /\ leader[resp'.at] \notin {resp'.at, NoLeader})
       => LET s == resp'.at
              l == leader[s]
              log == resp'.log
              atLeader == Handle(World, l, resp'.req, "Client", MaxHops)
          IN /\ log[1] = [at |-> s, source |-> "Client", did |-> "forward"]
             /\ \A i \in 2..Len(log) :
                  log[i].at = s => log[i].source = "Leader" /\ log[i].did = "local"
             /\ Up(l) =>
                  /\ resp'.status = atLeader.status
                  /\ Tail(log) = atLeader.w.log
                  /\ users' = atLeader.w.users
                  /\ messages' = atLeader.w.messages
                  /\ message_queue' = atLeader.w.message_queue
                  /\ active_clients' = atLeader.w.active_clients
             /\ ~Up(l) =>
                  /\ resp'.status = "FAILURE"
                  /\ users' = users /\ messages' = messages
                  /\ message_queue' = message_queue]_vars

\* a write forwarded by a replica the leader does not fan out to: the
\* leader's store has the account, the forwarder's store is untouched
C4_Witness ==
  /\ resp.op = "Register"
  /\ resp.status = "SUCCESS"
  /\ leader[resp.at] \notin {resp.at, NoLeader}
  /\ resp.req.username \in DOMAIN users[leader[resp.at]]
  /\ users[resp.at] = Empty

\* C5 (fan-out): a client write handled by the leader is executed once at
\* the leader and re-issued with source "Leader" to every peer of its peer
\* table, each reachable peer executing it exactly once, only locally.
C5_FanOutReachesEveryPeer ==
  [][HandledStep
       => LET x == LeaderOf(resp'.at)
              log == resp'.log
          IN /\ LogCount(log, x, "Client", "local") <= 1
             /\ resp'.status = "SUCCESS" => LogCount(log, x, "Client", "local") = 1
             /\ \A p \in Range(servers[x]) :
                  Up(p) => LogCount(log, p, "Leader", "local") = 1
             /\ \A i \in 1..Len(log) :
                  log[i].source = "Leader" => log[i].did = "local"]_vars

\* C6 (fan-out failure is swallowed): when the leader handles a client write
\* while a peer of its table is unreachable, the response is the outcome of
\* the leader's own store call, the leader's store keeps that effect, and
\* every reachable peer is still issued the write.
C6_FanOutFailureSwallowed ==
  [][(HandledStep /\ \E p \in Range(servers[LeaderOf(resp'.at)]) : ~Up(p))
       => LET x == LeaderOf(resp'.at)
              own == LocalEffect(World, x, resp'.req)
          IN /\ resp'.status = StatusOf(resp'.req, own.ok)
             /\ users'[x] = own.w.users[x]
             /\ messages'[x] = own.w.messages[x]
             /\ \A p \in Range(servers[x]) :
                  Up(p) => LogCount(resp'.log, p, "Leader", "local") = 1]_vars

\* ------------------------------------------------------------ C7 .. C10
\* s is a live member of the cluster, and the cluster's leader is up
Member(s) == Up(s) /\ leader[s] # NoLeader /\ Up(leader[s])

HoldsRow(s, m) == \E i \in 1..Len(messages[s]) : MessageOf(messages[s][i]) = m

\* C7: every live member of the cluster, a replica that joined after the
\* message was sent included, holds a row for every message whose
\* SendMessage was acknowledged.
C7_RowOnEveryMember ==
  \A m \in acked : \A s \in Server : Member(s) => HoldsRow(s, m)

\* C8: after a Register returned SUCCESS, the same username and password
\* authenticate against the store of every live member of the cluster.
C8_LoginOnEveryMember ==
  (resp.op = "Register" /\ resp.status = "SUCCESS")
    => \A s \in Server :
         Member(s) => authenticate_user(users[s], resp.req.username,
                                        resp.req.password, clock).ok

\* C9: a GetPendingMessage with source "Client" sent to a replica while its
\* leader holds pending rows for the user yields at least one message.
C9_ReplicaYieldsPending ==
  [][(/\ resp'.tick # resp.tick
      /\ resp'.op = "GetPendingMessage"
      /\ resp'.status # "OPEN"
      /\ resp'.source = "Client"
      /\ leader[resp'.at] \notin {resp'.at, NoLeader}
      /\ Up(leader[resp'.at])
      /\ get_pending_messages(messages[leader[resp'.at]], resp'.user) # <<>>)
       => Len(resp'.yielded) >= 1]_vars

\* the row with identifier id in the store of s
RowOf(s, id) == messages[s][id]

\* what GetPendingMessage generator c has done so far is within its limit,
\* consists of rows that were pending for its user, now marked delivered
CallOK(c) ==
  /\ Len(c.yielded) = c.counter
  /\ c.counter <= c.limit
  /\ \A i \in 1..Len(c.yielded) :
       LET r == c.yielded[i] IN
         /\ r.recipient = c.user
         /\ r.isPending
         /\ MessageOf(RowOf(c.at, r.id)) = MessageOf(r)
         /\ ~RowOf(c.at, r.id).isPending

\* in this step generator c yields the row with identifier id to its stream
YieldsRow(c, id) ==
  /\ c \in calls
  /\ c.pending_messages # <<>>
  /\ Head(c.pending_messages).id = id
  /\ [c EXCEPT !.counter = @ + 1, !.pending_messages = Tail(@),
               !.yielded = Append(@, Head(c.pending_messages))] \in calls'
  /\ c.reader = "client" =>
       received'[c.user] =
         Append(received[c.user],
                [msg |-> MessageOf(Head(c.pending_messages)), via |-> "pending"])

Ascending(rows) ==
  \A i, j \in 1..Len(rows) : i < j => rows[i].timestamp <= rows[j].timestamp

\* C11: a GetPendingMessage call for a user with n pending rows at the
\* serving leader and limit L yields exactly min(L, n) messages, those with
\* the smallest timestamps, wherever the client sent it; and a call that
\* starts while no other call of the user is open is given no message the
\* user has already read from an earlier call.
C11_DrainInOrder ==
  [][/\ \* a call sent to a replica, answered as soon as it is forwarded
        (/\ resp'.tick # resp.tick
         /\ resp'.op = "GetPendingMessage"
         /\ resp'.status # "OPEN"
         /\ LeaderOf(resp'.at) # NoLeader)
          => LET n == Len(get_pending_messages(messages[LeaderOf(resp'.at)],
                                               resp'.user))
             IN Len(resp'.yielded) = IF n < resp'.limit THEN n ELSE resp'.limit
     /\ \* a call served where it was sent, answered when its loop ends
        \A c \in calls :
          (c.reader = "client" /\ c \notin calls' /\ resp' # resp
             /\ resp'.tick = c.n /\ resp'.op = "GetPendingMessage")
            => LET n == Len(c.yielded) + Len(c.pending_messages) IN
                 /\ Len(resp'.yielded) = IF n < c.limit THEN n ELSE c.limit
                 /\ Ascending(c.yielded \o c.pending_messages)
     /\ \* a call that starts alone starts from unread rows
        \A c \in calls' \ calls :
          (c.reader = "client" /\ c.counter = 0
             /\ ~\E d \in calls : d.user = c.user)
            => \A i \in 1..Len(c.pending_messages) :
                 \A k \in 1..Len(received[c.user]) :
                   received[c.user][k].msg # MessageOf(c.pending_messages[i])
    ]_vars

\* ----------------------------------------------------------------- C12
\* The heartbeat timer re-arms itself every second (lines 727 and 737), so
\* a round that has stale peers to remove is eventually run.
SpecElectFair == SpecElect /\ \A s \in Server : WF_vars(heartbeat(s))

\* a server that completed its setup and is still running
Survivor(s) == Up(s) /\ s \in heartbeatThread
Survivors == {s \in Server : Survivor(s)}

\* every survivor's leader reference names the smallest surviving identifier
Converged == \A s \in Survivors : leader[s] = Min(Survivors)

\* a server that was leader when it was killed is still named by a
\* survivor's leader reference
LeaderKilled ==
  \E l \in Server : /\ proc[l] = "crashed" /\ leader[l] = l
                     /\ \E s \in Survivors : leader[s] = l

SelfLeaders == {s \in Server : Up(s) /\ leader[s] = s}

\* C14: at any instant at most one running server believes itself the
\* leader (servers crash, every message between running servers arrives).
C14_AtMostOneLeader == Cardinality(SelfLeaders) <= 1

\* ----------------------------------------------------------------- C15
\* server s ran run_election in this step: a heartbeat round (no process
\* starts or stops) removed the peer its leader reference named
Elected(s) ==
  /\ proc' = proc
  /\ Up(s)
  /\ leader[s] \in Range(servers[s])
  /\ leader[s] \notin Range(servers'[s])

Gained(j) ==
  {b \in Server : j \notin Range(servers[b]) /\ j \in Range(servers'[b])}

\* C20: when server j starts and its NewReplica request is answered, the
\* bootstrap adds j to its peer table; a bootstrap that is the leader also
\* forwards the request to every other peer it knows and each running one
\* adds j, while a bootstrap that is not the leader forwards nothing; and
\* the leader j takes from the response is the bootstrap's current leader.
C20_JoinHandshake ==
  [][\A j \in Server :
       (proc[j] = "off" /\ proc'[j] = "up" /\ Gained(j) # {})
         => \E b \in Gained(j) :
              /\ leader'[j] = leader[b]
              /\ IF leader[b] = b
                 THEN \A p \in Range(servers[b]) : Up(p) => p \in Gained(j)
                 ELSE Gained(j) = {b}
    ]_vars

\* the third server has joined through the leader, which knew the second
C20_Witness ==
  /\ \A s \in Server : Up(s)
  /\ Range(servers[2]) = {1, 3}
  /\ 3 \in Range(servers[1]) /\ 1 \in Range(servers[3])
  /\ leader[1] = 2 /\ leader[3] = 2

\* ----------------------------------------------------------------- C18
\* a client's DeleteAccount was answered in this step, served by leader l
DeleteAnswered(l) ==
  /\ resp'.tick # resp.tick
  /\ resp'.op = "DeleteAccount"
  /\ l = LeaderOf(resp'.at)

\* C18: DeleteAccount for a username that has no account returns FAILURE
\* and leaves the users table of every server unchanged; for a username
\* that has one it removes exactly that row at the leader and returns
\* SUCCESS (when every peer of the leader is running).
C18_DeleteAccount ==
  [][\A l \in Server :
       DeleteAnswered(l) =>
         LET u == resp'.req.username IN
           IF u \in DOMAIN users[l]
           THEN /\ users'[l] = Drop(users[l], u)
                /\ (\A p \in Range(servers[l]) : Up(p)) => resp'.status = "SUCCESS"
           ELSE /\ resp'.status = "FAILURE"
                /\ users' = users
    ]_vars

\* ----------------------------------------------------------------- C19
\* the previous response to a client was SUCCESS for SaveSettings(u, v)
Saved(u, v) ==
  /\ resp.op = "SaveSettings"
  /\ resp.status = "SUCCESS"
  /\ resp.req.username = u
  /\ resp.req.setting = v

\* C19: SaveSettings is idempotent, a second identical call after a
\* successful one changes no server's store; and a GetSettings that follows
\* a successful SaveSettings(username, v) returns v.
C19_SettingsReadYourWrite ==
  [][\A u \in User, v \in 1..MaxLimit :
       (Saved(u, v) /\ resp'.tick # resp.tick) =>
         /\ (resp'.op = "SaveSettings" /\ resp'.req = resp.req)
              => users' = users
         /\ (resp'.op = "GetSettings" /\ resp'.user = u)
              => resp'.setting = v
    ]_vars

\* ----------------------------------------------------------------- C17
\* a client's Register for u was answered in this step, served by leader
\* l, which already held an account for u
DuplicateRegister(l, u) ==
  /\ resp'.tick # resp.tick
  /\ resp'.op = "Register"
  /\ resp'.req.username = u
  /\ l = LeaderOf(resp'.at)
  /\ u \in DOMAIN users[l]

\* C17: a Register for a username that is already registered returns
\* FAILURE, and afterwards the leader and every server that has a row for
\* the username hold the first registration's password hash and email.
C17_DuplicateRegistration ==
  [][\A l \in Server, u \in User :
       DuplicateRegister(l, u) =>
         /\ resp'.status = "FAILURE"
         /\ \A x \in Server :
              u \in DOMAIN users'[x] =>
                /\ users'[x][u].password_hash = users[l][u].password_hash
                /\ users'[x][u].email = users[l][u].email
    ]_vars

\* ----------------------------------------------------------------- C16
\* three servers were started and exactly one, the replica k, was killed
ReplicaKilled(k) ==
  /\ proc[k] = "crashed"
  /\ leader[k] # k
  /\ \A s \in Server \ {k} : Up(s)

\* the client writes whose store call rejects nothing
Unconditional == {"SendMessage", "DeleteAccount", "SaveSettings"}

\* C16: with three servers up and one replica killed, the client
\* operations sent to the survivors continue to succeed.
C16_ReplicaFailureTolerated ==
  [][\A k \in Server :
       (/\ ReplicaKilled(k)
        /\ resp'.tick # resp.tick
        /\ resp'.op \in Unconditional)
         => resp'.status = "SUCCESS"
    ]_vars

\* ----------------------------------------------------------------- C13
\* the leader old was killed and every running server has removed it and
\* names the running server n as leader
FailedOver(old, n) ==
  /\ proc[old] = "crashed" /\ leader[old] = old
  /\ Up(n)
  /\ \A s \in Server :
       Up(s) => Survivor(s) /\ leader[s] = n /\ old \notin Range(servers[s])

\* the rows still pending for u in the store of n whose message was
\* acknowledged to its sender and stored by the killed leader old
Unretrieved(old, n, u) ==
  SelectSeq(get_pending_messages(messages[n], u),
            LAMBDA row : /\ MessageOf(row) \in acked
                         /\ \E i \in 1..Len(messages[old]) :
                              MessageOf(messages[old][i]) = MessageOf(row))

\* C13: after the leader was killed and the survivors have elected a new
\* leader n, (a) a GetPendingMessage of a user with messages acknowledged
\* before the failure and not yet retrieved, sent to any surviving server,
\* is served to the client from those rows, and (b) a client's SendMessage
\* sent to a surviving non-leader returns SUCCESS and its row is in the
\* store of n.
C13_FailoverPreservesService ==
  [][\A old, n \in Server :
       (FailedOver(old, n) /\ resp'.tick # resp.tick) =>
         /\ (/\ resp'.op = "GetPendingMessage"
             /\ Unretrieved(old, n, resp'.user) # <<>>)
              => \E c \in calls' \ calls :
                   /\ c.reader = "client"
                   /\ Range(Unretrieved(old, n, c.user))
                        \subseteq Range(c.pending_messages)
         /\ (resp'.op = "SendMessage" /\ resp'.at # n)
              => /\ resp'.status = "SUCCESS"
                 /\ \E i \in 1..Len(messages'[n]) :
                      MessageOf(messages'[n][i]) = MessageOf(resp'.req)
    ]_vars

\* ----------------------------------------------------------------- C21
\* the peer table of s: no entry for s itself, one entry per identifier
TableWellFormed(s) ==
  /\ s \notin Range(servers[s])
  /\ Cardinality(Range(servers[s])) = Len(servers[s])

\* server j started in this step and its setup ran to the end
Joined(j) ==
  /\ proc[j] = "off" /\ proc'[j] = "up"
  /\ j \in heartbeatThread'

\* C21: no server's peer table ever holds the server's own identifier or
\* two entries for one identifier; and when a join handshake completes the
\* joiner's table is what GetServers yields, the leader's table without
\* the joiner, plus the leader.
C21_PeerTableExcludesSelf ==
  /\ [](\A s \in Server : TableWellFormed(s))
  /\ [][\A j \in Server :
          Joined(j) =>
            LET l == leader'[j] IN
              /\ l # j
              /\ servers'[j] = DictPut(Without(servers'[l], j), l)
       ]_vars

\* the third server joined through the leader, whose table names it: its
\* own table holds the other replica and the leader, not itself
C21_Witness ==
  /\ 3 \in Range(servers[2]) /\ 1 \in Range(servers[2])
  /\ leader[3] = 2
  /\ Range(servers[3]) = {1, 2}

\* ----------------------------------------------------------------- C22
\* server l answered a Heartbeat request of requestor r in this step
Answered(l, r) ==
  /\ heartbeat_response'.n # heartbeat_response.n
  /\ heartbeat_response'.to = l
  /\ heartbeat_response'.from = r
  /\ heartbeat_response'.status = "Heartbeat received"

\* what a Heartbeat request never touches on the server that receives it
HeartbeatFrame(l) ==
  /\ servers'[l] = servers[l]
  /\ leader'[l] = leader[l]
  /\ users'[l] = users[l]
  /\ messages'[l] = messages[l]

\* C22: a Heartbeat from a known peer r is answered with the receiver's
\* identifier and refreshes the timestamp of r's entry on the receiver and
\* of no other entry there; a Heartbeat with requestor "Client" is answered
\* and changes no timestamp; neither changes the receiver's peer table,
\* leader reference or store.
C22_HeartbeatRefreshesSender ==
  [][\A l \in Server :
       /\ \A r \in Range(servers[l]) :
            Answered(l, r) =>
              /\ heartbeat_response'.responder_id = l
              /\ last_heartbeat'[l][r] > last_heartbeat[l][r]
              /\ \A p \in Server \ {r} :
                   last_heartbeat'[l][p] = last_heartbeat[l][p]
              /\ HeartbeatFrame(l)
       /\ Answered(l, ClientId) =>
            /\ last_heartbeat' = last_heartbeat
            /\ HeartbeatFrame(l)
    ]_vars

\* the leader, which knows replicas 1 and 3, has just answered a heartbeat
\* of replica 1: that entry carries the time of the answer, the other an
\* earlier one
C22_Witness ==
  /\ Range(servers[2]) = {1, 3}
  /\ heartbeat_response.to = 2 /\ heartbeat_response.from = 1
  /\ heartbeat_response.responder_id = 2
  /\ last_heartbeat[2][1] = heartbeat_response.n
  /\ last_heartbeat[2][3] < heartbeat_response.n

\* ----------------------------------------------------------------- C23
\* the monitor loops on server s that pop the mailbox of u: those whose
\* context is active
Consumers(s, u) == {st \in streams : st.user = u /\ st.ctx[2] = s}

\* C23: at any instant at most one monitor loop on a server consumes a
\* user's mailbox, the one active_clients registers: a MonitorMessages for
\* a user who already has a subscription there detaches the prior one.
C23_SingleSubscription ==
  \A s \in Server, u \in User :
    \A st \in Consumers(s, u) :
      /\ u \in DOMAIN active_clients[s]
      /\ active_clients[s][u] = st.ctx

\* ----------------------------------------------------------------- C24
\* server s holds a subscription for u
Subscribed(s, u) == Up(s) /\ u \in DOMAIN active_clients[s]

\* the stream of the subscription s holds for u has closed
StreamClosed(s, u) ==
  /\ Subscribed(s, u)
  /\ ~\E st \in streams : st.ctx = active_clients[s][u]

\* C24: once the stream of a subscribed client has closed, the server
\* eventually holds no subscription for that user (or a new stream has
\* taken its place).
C24_SubscriptionRemovedOnExit ==
  \A s \in Server, u \in User : StreamClosed(s, u) ~> ~StreamClosed(s, u)

\* ----------------------------------------------------------------- C25
\* the contexts a client's MonitorMessages request can register
ClientStream ==
  [ctx : (1..MaxClock) \X Server, user : Subscribers, reader : {"client"}]

\* The monitor loop st runs on a server whose leader reference has changed
\* since the loop started: a loop is started on a server only when that
\* server is the leader or its leader does not answer (lines 418-428), and
\* here the server names another server that answers it.
LeaderChanged(st) ==
  LET s == st.ctx[2] IN
    /\ st \in streams
    /\ leader[s] # s
    /\ HeartbeatAnswers(leader[s], s)

\* C25: a client's monitor loop whose server has changed its leader
\* reference eventually ends its stream.
C25_LoopExitsOnLeaderChange ==
  \A st \in ClientStream : LeaderChanged(st) ~> (st \notin streams)

\* ----------------------------------------------------------------- C26
\* m1 and m2 go from one sender to one recipient, and m1 is the earlier
\* one: its timestamp is smaller and it was sent first (the body of a
\* message is the number of its request)
Earlier(m1, m2) ==
  /\ m1.sender = m2.sender /\ m1.recipient = m2.recipient
  /\ m1.timestamp < m2.timestamp
  /\ m1.message < m2.message

InHistory(r, username) ==
  ~r.isPending /\ (r.sender = username \/ r.recipient = username)

\* h holds exactly the rows of its server that belong to the history of its
\* user, each once, in non-decreasing timestamp order
ExactHistory(h, rows) ==
  /\ \A i \in 1..Len(rows) :
       InHistory(rows[i], h.username) <=>
         \E k \in 1..Len(h.messages) : h.messages[k] = Serialized(rows[i])
  /\ Len(h.messages) =
       Cardinality({i \in 1..Len(rows) : InHistory(rows[i], h.username)})
  /\ \A k, l \in 1..Len(h.messages) :
       k < l => h.messages[k].timestamp <= h.messages[l].timestamp

\* C27: GetMessageHistory(user) yields exactly the non-pending messages of
\* the serving server's store that have the user as sender or recipient, in
\* non-decreasing timestamp order, and changes no state.
C27_MessageHistory ==
  [][history' # history =>
       /\ ExactHistory(history', messages[history'.at])
       /\ UNCHANGED <<proc, leader, servers, heartbeatThread, users, messages,
                      active_clients, message_queue, streams, calls, received,
                      acked, resp, clock, beatVars, current_stub, checked,
                      monitor, handlers>>]_vars

\* a history of two messages, the one stored later first
C27_Witness ==
  /\ Len(history.messages) = 2
  /\ history.messages[1].message > history.messages[2].message
  /\ history.messages[1].timestamp < history.messages[2].timestamp
  /\ Len(messages[history.at]) = 2

\* ----------------------------------------------------------------- C28
\* the servers the last check_servers call probed after its own handle
Scanned ==
  IF checked.had # None THEN Tail(checked.probed) ELSE checked.probed

\* C28: the client holds at most one handle; check_servers returns only
\* with a handle that answered a Heartbeat probe during the call; when the
\* handle it had fails the probe, or there was none, the configured list is
\* scanned in order; it never returns without a handle.
C28_ClientDiscovery ==
  /\ current_stub \in Server \cup {None}
  /\ checked.called =>
       /\ current_stub = checked.stub
       /\ checked.stub # None
       /\ checked.stub \in checked.answered
       /\ checked.had \notin checked.answered =>
            /\ Len(Scanned) <= Len(SERVERS)
            /\ \A i \in 1..Len(Scanned) : Scanned[i] = SERVERS[i]
            /\ checked.stub = Scanned[Len(Scanned)]

\* ----------------------------------------------------------------- C29
\* the stream of the monitor task has ended, with or without an error, or
\* the client's handle is no longer the one the stream was opened on
MonitorEnded ==
  \/ StreamError
  \/ StreamDone
  \/ monitor.pc = "iterating" /\ monitor.original_server # current_stub

\* C29: whenever the stream of the client's monitor task ends with an
\* error, ends without an error, or the handle changes, the client
\* eventually opens a new MonitorMessages stream (as long as the request
\* counter of the model lets it issue one).
C29_MonitorRestarts ==
  \A k \in 0..MaxClock :
    (MonitorEnded /\ monitor.opened = k /\ clock < MaxClock)
      ~> (monitor.opened > k)

\* ----------------------------------------------------------------- C30
\* every write the leader l has handled so far went through its whole
\* fan-out, to every peer of l's table
FanOutsCompleted(l) ==
  /\ Up(l) /\ leader[l] = l
  /\ handlers # {}
  /\ \A h \in handlers :
       h.at = l /\ h.pc = "done" /\ h.sent = Range(servers[l])

\* C30: once the fan-outs of the writes a leader handled, concurrently or
\* not, have completed, the users and settings rows of every replica equal
\* the leader's, whatever order the leader-sourced requests arrived in.
C30_ConcurrentWritesConverge ==
  \A l \in Server :
    FanOutsCompleted(l) => \A p \in Range(servers[l]) : users[p] = users[l]

\* ----------------------------------------------------------------- C31
\* this step answers a client's write sent to a server that is not leader
\* and whose leader is not running
ForwardFails ==
  /\ WriteStep
  /\ leader[resp'.at] \notin {resp'.at, NoLeader}
  /\ ~Up(leader[resp'.at])

\* C31: a server that is not leader and cannot reach its leader while
\* forwarding a client's unary write returns FAILURE, and its own store
\* (users, messages) and its mailboxes and subscriptions are unchanged.
C31_ForwardFailure ==
  [][ForwardFails =>
       LET s == resp'.at IN
         /\ resp'.status = "FAILURE"
         /\ users'[s] = users[s]
         /\ messages'[s] = messages[s]
         /\ message_queue'[s] = message_queue[s]
         /\ active_clients'[s] = active_clients[s]]_vars

\* a SendMessage answered with FAILURE by a replica whose leader is gone,
\* after nothing but the attempt to forward
C31_Witness ==
  /\ resp.op = "SendMessage"
  /\ resp.status = "FAILURE"
  /\ leader[resp.at] \notin {resp.at, NoLeader}
  /\ ~Up(leader[resp.at])
  /\ resp.log = <<[at |-> resp.at, source |-> "Client", did |-> "forward"]>>

\* ----------------------------------------------------------------- C32
\* this step answers a client's SendMessage, and server s ran the delivery
\* part of the handler for it (for the client or for its leader)
Executed(s) ==
  /\ WriteStep /\ resp'.op = "SendMessage"
  /\ \E i \in 1..Len(resp'.log) :
       resp'.log[i].at = s /\ resp'.log[i].did = "local"

\* the recipient of the request has a subscription on s that is alive
AliveSubscription(s, req) ==
  /\ req.recipient \in DOMAIN active_clients[s]
  /\ IsActive(active_clients[s][req.recipient])

\* C32: on every server that executes a SendMessage, a recipient with a
\* live subscription gets the message appended to its mailbox and stored
\* with pending = false; otherwise the mailboxes are unchanged, a dead
\* subscription is removed and the message is stored with pending = true.
\* Exactly one row is stored, and the executing server that answers the
\* client returns SUCCESS.
C32_DeliveryRule ==
  [][\A s \in Server : Executed(s) =>
       LET req == resp'.req
           u == req.recipient
           alive == AliveSubscription(s, req)
           n == Len(messages[s])
       IN /\ Len(messages'[s]) = n + 1
          /\ SubSeq(messages'[s], 1, n) = messages[s]
          /\ MessageOf(messages'[s][n + 1]) = MessageOf(req)
          /\ messages'[s][n + 1].isPending = ~alive
          /\ alive =>
               /\ message_queue'[s] =
                    [message_queue[s] EXCEPT ![u] = Append(@, MessageOf(req))]
               /\ active_clients'[s] = active_clients[s]
          /\ ~alive =>
               /\ message_queue'[s] = message_queue[s]
               /\ u \notin DOMAIN active_clients'[s]
               /\ \A v \in DOMAIN active_clients[s] \ {u} :
                    /\ v \in DOMAIN active_clients'[s]
                    /\ active_clients'[s][v] = active_clients[s][v]
          /\ s = LeaderOf(resp'.at) => resp'.status = "SUCCESS"]_vars

\* a message queued for a live subscription and stored as delivered
C32_Witness ==
  /\ resp.op = "SendMessage" /\ resp.status = "SUCCESS"
  /\ \E s \in Server :
       LET q == message_queue[s][resp.req.recipient]
           rows == messages[s]
       IN /\ Len(q) > 0 /\ q[Len(q)] = MessageOf(resp.req)
          /\ Len(rows) > 0
          /\ MessageOf(rows[Len(rows)]) = MessageOf(resp.req)
          /\ ~rows[Len(rows)].isPending

\* ----------------------------------------------------------------- C33
\* this step is a sweep of server s: its peer table or its leader changes
\* while it keeps running (a join only adds entries)
Swept(s) ==
  /\ Up(s) /\ Up(s)'
  /\ <<servers[s], leader[s]>> # <<servers'[s], leader'[s]>>
  /\ Range(servers[s]) \ Range(servers'[s]) # {}

\* the peers a sweep of s removes
Removed(s) == Range(servers[s]) \ Range(servers'[s])

\* C33: a sweep removes from the peer table exactly the peers whose
\* heartbeat is stale and keeps the other entries as they were; the leader
\* reference changes (an election ran) if and only if the leader is among
\* the removed peers, and afterwards it names no peer removed in the sweep.
C33_FailureSweep ==
  [][\A s \in Server : Swept(s) =>
       /\ servers'[s] = SelectSeq(servers[s], LAMBDA p : Refreshed(s, p))
       /\ \A p \in Range(servers'[s]) :
            last_heartbeat'[s][p] = last_heartbeat[s][p]
       /\ (leader'[s] # leader[s]) <=> (leader[s] \in Removed(s))
       /\ leader'[s] \notin Removed(s)]_vars

\* server 1 has swept the crashed leader 2 out of its table, kept peer 3
\* and elected itself
C33_Witness ==
  /\ proc[2] = "crashed"
  /\ Up(1) /\ leader[1] = 1
  /\ servers[1] = <<3>>

\* ----------------------------------------------------------------- C34
\* C34: access to the peer table is serialised: the fan-out loop of a
\* write handler never fails because the table changed under it, and a
\* handler whose loop completed has sent the request to every peer the
\* table held when the loop ended.
C34_TableAccessSerialised ==
  [][\A h \in handlers' :
       /\ h.error # "RuntimeError"
       /\ (h.pc = "done" /\ h \notin handlers) =>
            h.sent = Range(servers'[h.at])]_vars

\* ----------------------------------------------------------------- C35
\* in this step a GetPendingMessage stream that the leader executed for a
\* client ends
DrainedAtLeader ==
  /\ resp' # resp
  /\ resp'.op = "GetPendingMessage"
  /\ resp'.status \in {"END", "FAILURE"}
  /\ resp'.source = "Client"
  /\ leader[resp'.at] = resp'.at

\* C35: when a GetPendingMessage executed by the leader for a client has
\* drained, the client's stream held only SUCCESS items, and every running
\* replica of the leader's table stores each yielded message it holds with
\* pending = false.
C35_PendingFlagPropagates ==
  [][DrainedAtLeader =>
       /\ resp'.status = "END"
       /\ \A p \in Range(servers[resp'.at]) : Up(p) =>
            \A i \in 1..Len(resp'.yielded), k \in 1..Len(messages'[p]) :
              MessageOf(messages'[p][k]) = MessageOf(resp'.yielded[i])
                => ~messages'[p][k].isPending]_vars

\* ----------------------------------------------------------------- C36
\* row i of the store of s is kept by this step: same identifier, sender,
\* recipient, body and timestamp, and a flag that is not set back to
\* pending
RowKept(s, i) ==
  /\ i <= Len(messages'[s])
  /\ messages'[s][i].id = messages[s][i].id
  /\ MessageOf(messages'[s][i]) = MessageOf(messages[s][i])
  /\ messages'[s][i].isPending => messages[s][i].isPending

\* C36: no step removes or rewrites a stored message row, also not the
\* DeleteAccount of its sender or recipient, and a pending flag only ever
\* goes from true to false.
C36_RowsKept ==
  [][\A s \in Server : \A i \in 1..Len(messages[s]) : RowKept(s, i)]_vars

\* the account of a message's sender was deleted on a server that still
\* stores the message, delivered by an earlier GetPendingMessage
C36_Witness ==
  /\ resp.op = "DeleteAccount" /\ resp.status = "SUCCESS"
  /\ resp.req.username \notin DOMAIN users[resp.at]
  /\ \E i \in 1..Len(messages[resp.at]) :
       /\ messages[resp.at][i].sender = resp.req.username
       /\ ~messages[resp.at][i].isPending

\* ----------------------------------------------------------------- C37
\* the leader reference of s is its own identifier or a key of its table
LeaderKnown(s) == leader[s] = s \/ leader[s] \in Range(servers[s])

\* the constructor of s ran to its end: a founder, or a joiner whose setup
\* reached its last statement, the start of the heartbeat thread
StartupCompleted(s) == Up(s) /\ s \in heartbeatThread

\* C37: the leader reference of a server that has completed its startup is
\* its own identifier or the key of an entry of its peer table.
C37_LeaderNotDangling ==
  \A s \in Server : StartupCompleted(s) => LeaderKnown(s)

\* server 3 has swept the crashed leader 2 out of its table and now
\* follows server 1, which its table holds
C37_Witness ==
  /\ proc[2] = "crashed"
  /\ StartupCompleted(3)
  /\ leader[3] = 1
  /\ 1 \in Range(servers[3]) /\ 2 \notin Range(servers[3])

\* ----------------------------------------------------------------- C38
\* in this step server j completes the join handshake
JoinCompleted(j) ==
  /\ proc[j] = "off"
  /\ proc'[j] = "up"
  /\ j \in heartbeatThread'

\* C38: after a replica completes the join handshake, through the leader
\* or through another replica, the leader and every other running member
\* the joiner knows hold the joiner in their peer tables, so that each
\* accepts the joiner's heartbeats.
C38_SymmetricMembership ==
  [][\A j \in Server : JoinCompleted(j) =>
       /\ leader'[j] \in Range(servers'[j])
       /\ \A p \in Range(servers'[j]) :
            proc'[p] = "up" => j \in Range(servers'[p])]_vars

\* ----------------------------------------------------------------- C39
\* C39: as long as no server has crashed, no server removes a peer from its
\* peer table and no server that has a leader changes it (no election
\* runs): the initial leader stays the leader at every server.
C39_NoFalseDetection ==
  [][NoCrash' =>
       \A s \in Server : Up(s) =>
         /\ Range(servers[s]) \subseteq Range(servers'[s])
         /\ leader[s] # NoLeader => leader'[s] = leader[s]]_vars

\* ----------------------------------------------------------------- C40
RECURSIVE AnnouncementHops(_, _, _)
\* the depth of the calls one NewReplica(j) received by server b sets off:
\* b forwards to every peer but j only if it takes itself for the leader
\* (line 676), and a forward that fails is skipped (679-682)
AnnouncementHops(b, j, fuel) ==
  LET reached == {p \in Range(Without(DictPut(servers[b], j), j)) : Up(p)} IN
  IF leader[b] # b \/ reached = {} THEN 0
  ELSE IF fuel = 0 THEN 1
  ELSE LET below == {AnnouncementHops(p, j, fuel - 1) : p \in reached}
       IN 1 + CHOOSE n \in below : \A m \in below : m <= n

\* a write a client may send: whether it is forwarded depends on the
\* receiving server's leader reference only
ProbeWrite == [op |-> "SendMessage", sender |-> "alice", recipient |-> "bob",
               message |-> 0, timestamp |-> 1]

\* C40: whatever the servers' leader references are, election windows in
\* which they disagree included, a client's write received by a running
\* server ends in local execution or in FAILURE after at most one forward
\* per server (no forwarding cycle), and a NewReplica announcement received
\* by a running server is forwarded at most one hop.
C40_ForwardingTerminates ==
  \A s \in Server : Up(s) =>
    /\ Handle(World, s, ProbeWrite, "Client", MaxHops).status # "HANG"
    /\ \A j \in Server \ {s} : AnnouncementHops(s, j, MaxHops) <= 1

\* a SendMessage was forwarded by the server that received it and executed
\* by that server's leader, while two running servers name different
\* leaders and a running leader has a running peer to forward a NewReplica
\* announcement to
C40_Witness ==
  /\ resp.op = "SendMessage"
  /\ resp.status = "SUCCESS"
  /\ Len(resp.log) >= 2
  /\ resp.log[1].did = "forward"
  /\ \E s, t \in Server :
       /\ Up(s) /\ Up(t)
       /\ leader[s] # NoLeader /\ leader[t] # NoLeader
       /\ leader[s] # leader[t]
  /\ \E b \in Server : \E j \in Server \ {b} :
       Up(b) /\ AnnouncementHops(b, j, MaxHops) = 1

====
